---- MODULE Spec2Model ----
(***************************************************************************)
(* Wiktok client: the App component (feed controller) of the guarded       *)
(* variant, src/unnamed/part_005 lines 266-608.                            *)
(*                                                                         *)
(* React state (useState) and refs (useRef) are the variables.  A handler  *)
(* (key, swipe, click, timer, fetch continuation) runs to completion and   *)
(* its state updates are rendered and committed with it; the passive       *)
(* effects of that commit (useEffect) run in the step RunEffects, before   *)
(* any other event is handled.  State updates made inside an effect are    *)
(* committed by a later render, the step Rerender; until then the DOM      *)
(* (variable rendered) still shows the previous commit, and the user can   *)
(* click what it shows.  The render is scheduled before fetch() is called, *)
(* so a network response is handled only after that render is committed.   *)
(*                                                                         *)
(* JavaScript arrays are 0-based, TLA+ sequences 1-based: articles[i] of   *)
(* the source is articles[i+1] here; currentIndex keeps the source's       *)
(* 0-based value.                                                          *)
(***************************************************************************)
EXTENDS Integers, Sequences, FiniteSets, TLC

VARIABLES
    articles,         \* useState<Article[]>([]): sequence of article ids
    currentIndex,     \* useState(0)
    loading,          \* useState(true)
    error,            \* useState<string | null>(null)
    isInitialLoad,    \* useState(true)
    isFetchingRef,    \* useRef(false)
    scrollTimeoutRef, \* useRef<number | null>(null); 0 stands for null
    timers,           \* pending window.setTimeout callbacks of handleWheel; field
                      \* overrode tells that the event cancelled the timer of an
                      \* event of another deltaY (history)
    cache,            \* sessionStorage item under CACHE_KEY
    storage,          \* "ok", or "throws" when sessionStorage access throws
    pending,          \* network requests in flight, one closure record each;
                      \* field at is the cursor position of the dispatch (history)
    served,           \* number of articles the Article Source has served
    effectsPending,   \* a commit's passive effects have not run yet
    mounted,          \* the mount effects have run
    lastDeps,         \* dependency values of the render whose effects ran last
    articlesChanged,  \* setArticles was called since the save effect last ran
    rendered,         \* what the last commit put in the DOM
    lastOp,           \* the last operation a handler invoked ("mount" before any)
    lastFailure,      \* the failure handled in the last step, if it was a failed fetch
    lastPage,         \* the page received in the last step, if it was a successful fetch
    issued,           \* the last step issued a network call
    exitPath,         \* how an invocation of fetchArticles returned in the last step
    invocations,      \* invocations of fetchArticles since the oldest request in flight was issued
    lastRequest,      \* the request whose continuation ran in the last step
    cacheLog,         \* sessionStorage calls of the last step, and whether one threw out of its effect
    (* server: src/server/src/app.ts and src/server/src/database/models.ts *)
    db,               \* the SQLite tables articles and likes
    tasks,            \* the request handlers in progress, one record per request
    serverLog,        \* what the handler step of the last step did
    svc,              \* wikipediaService: the call of getRandomArticle(s) in progress
    svcLog,           \* what the service step of the last step did
    (* ArticleCard: src/unnamed/part_004 *)
    cards,            \* per card: useState isLiked, isLikeLoading, expanded, and the
                      \* closure of a handleLikeToggle call that awaits
    onLikeToggle,     \* whether the parent passes the onLikeToggle prop
    cardLog           \* what the card handler of the last step did

feedVars == <<articles, currentIndex, loading, error, isInitialLoad, isFetchingRef,
          scrollTimeoutRef, timers, cache, storage, pending, served,
          effectsPending, mounted, lastDeps, articlesChanged, rendered,
          lastOp, lastFailure, lastPage, issued, exitPath, invocations, lastRequest,
          cacheLog>>

serverVars == <<db, tasks, serverLog, svc, svcLog>>

cardVars == <<cards, onLikeToggle, cardLog>>

vars == <<feedVars, serverVars, cardVars>>

----------------------------------------------------------------------------
(* Program constants *)

BATCH_SIZE == 10

PREFETCH_THRESHOLD == 3

(* Bounds of the model *)

MaxItems == 10

MaxPage == 3

MaxCached == 4

MaxInvocations == 3

MaxTimers == 2

----------------------------------------------------------------------------
(* Values *)

Null == "null"

Max(a, b) == IF a > b THEN a ELSE b

Min(a, b) == IF a < b THEN a ELSE b

\* `if (error)`: null and the empty string are falsy
Truthy(s) == s # Null /\ s # ""

Keys == {"ArrowDown", "j", "ArrowUp", "k", "Enter"}

DeltaYs == {-1, 0, 1}

\* What a fetch can fail with: a rejection with an Error, a non-ok response
\* (text is the status), a thrown value that is not an Error.
Failures ==
    {[type |-> "Error", text |-> "API Error"],
     [type |-> "HTTP", text |-> "500"],
     [type |-> "HTTP", text |-> "404"],
     [type |-> "NonError", text |-> "string"]}

NoFailure == [type |-> "none", text |-> ""]

\* The articles a response carries: the next n ids of the Article Source
Page(from, n) == [k \in 1..n |-> from + k]

----------------------------------------------------------------------------
(* Session Cache: JSON.stringify / JSON.parse of the article array *)

NoItem == [kind |-> "null", elems |-> <<>>]

JSONstringify(items) == [kind |-> "array", elems |-> items]

JSONparseThrows(s) == s.kind # "array"

JSONparse(s) == s.elems

InitialCaches ==
    {NoItem, [kind |-> "empty", elems |-> <<>>], [kind |-> "garbage", elems |-> <<>>]}
    \cup {JSONstringify(Page(0, k)) : k \in 0..MaxCached}

NoRequest == [isInitialLoad |-> FALSE, count |-> 0, at |-> 0]

NoCacheOps == [reads |-> 0, writes |-> 0, uncaught |-> FALSE]

\* Variant: loadCachedArticles returning true for any stored item
CacheRestoresWhenPresent ==
    /\ storage = "ok"
    /\ cache.kind \notin {"null", "empty"}

\* loadCachedArticles returns true
CacheRestores ==
    /\ storage = "ok"
    /\ cache.kind \notin {"null", "empty"}
    /\ ~JSONparseThrows(cache)

----------------------------------------------------------------------------
(* Pure parts of the component *)

\* Variant: the trigger two articles before the end
ShouldPrefetchTwoAway(idx, len, isLoading) ==
    /\ idx >= len - 2
    /\ ~isLoading
    /\ len > 0

ShouldPrefetch(idx, len, isLoading) ==
    /\ idx >= len - PREFETCH_THRESHOLD
    /\ ~isLoading
    /\ len > 0

\* Variant: the guard off by one
CanGoNextOffByOne(idx, len) == idx < len

CanGoNext(idx, len) == idx < len - 1

CanGoPrevious(idx) == idx > 0

\* Variant: the page put in front
PrependPage(current, data) == data \o current

AppendPage(current, data) == current \o data

\* Variant: the message of the failure dropped
ErrorMessageUnknown(f) == "An unknown error occurred"

ErrorMessage(f) ==
    IF f.type = "HTTP" THEN "HTTP error " \o f.text
    ELSE IF f.type = "Error" THEN f.text
    ELSE "An unknown error occurred"

\* Array.prototype.slice(start, end) for 0 <= start, end <= length
Slice(s, start, end) == SubSeq(s, start + 1, end)

WindowStart(idx) == Max(0, idx - 1)

\* Variant: the window without the next article
WindowEndShort(len, idx) == Min(len, idx + 1)

WindowEnd(len, idx) == Min(len, idx + 2)

RenderWindow(items, idx) ==
    Slice(items, WindowStart(idx), WindowEnd(Len(items), idx))

GlobalIndex(idx, localIndex) == idx - Max(0, idx - 1) + localIndex

\* The cards of the window, in order; localIndex is 0-based in the source
Cards(items, idx) ==
    [k \in 1..Len(RenderWindow(items, idx)) |->
        [article |-> RenderWindow(items, idx)[k],
         globalIndex |-> GlobalIndex(idx, k - 1),
         isActive |-> (idx = GlobalIndex(idx, k - 1))]]

Deps == [currentIndex |-> currentIndex, length |-> Len(articles), loading |-> loading]

View == [error |-> Truthy(error), loading |-> loading, isInitialLoad |-> isInitialLoad]

\* The feed (cards and Controls) is in the DOM
FeedShown == ~rendered.error /\ ~(rendered.isInitialLoad /\ rendered.loading)

----------------------------------------------------------------------------
(* fetchArticles up to its first await *)

\* Variant: fetchArticles without the isFetchingRef guard
fetchArticlesUnguarded ==
    /\ isFetchingRef' = TRUE
    /\ loading' = TRUE
    /\ error' = Null
    /\ pending' = Append(pending, [isInitialLoad |-> isInitialLoad, count |-> BATCH_SIZE,
                                    at |-> currentIndex])
    /\ issued' = TRUE
    /\ exitPath' = "none"
    /\ invocations' = IF pending = <<>> THEN 1 ELSE invocations + 1

\* Variant: fetchArticles without setError(null)
fetchArticlesKeepsError ==
    IF isFetchingRef
    THEN /\ UNCHANGED <<isFetchingRef, loading, error, pending>>
         /\ issued' = FALSE
         /\ exitPath' = "dedup"
         /\ invocations' = invocations + 1
    ELSE /\ isFetchingRef' = TRUE
         /\ loading' = TRUE
         /\ UNCHANGED error
         /\ pending' = Append(pending, [isInitialLoad |-> isInitialLoad, count |-> BATCH_SIZE,
                                    at |-> currentIndex])
         /\ issued' = TRUE
         /\ exitPath' = "none"
         /\ invocations' = IF pending = <<>> THEN 1 ELSE invocations + 1

fetchArticles ==
    IF isFetchingRef
    THEN /\ UNCHANGED <<isFetchingRef, loading, error, pending>>
         /\ issued' = FALSE
         /\ exitPath' = "dedup"
         /\ invocations' = invocations + 1
    ELSE /\ isFetchingRef' = TRUE
         /\ loading' = TRUE
         /\ error' = Null
         /\ pending' = Append(pending, [isInitialLoad |-> isInitialLoad, count |-> BATCH_SIZE,
                                    at |-> currentIndex])
         /\ issued' = TRUE
         /\ exitPath' = "none"
         /\ invocations' = IF pending = <<>> THEN 1 ELSE invocations + 1

NoFetch ==
    /\ UNCHANGED <<isFetchingRef, loading, error, pending, invocations>>
    /\ issued' = FALSE
    /\ exitPath' = "none"

\* Variant: a finally block that leaves the guard set
FetchFinallyKeepsRef ==
    /\ loading' = FALSE
    /\ UNCHANGED isFetchingRef

\* Variant: a finally block that forgets setLoading(false)
FetchFinallyKeepsLoading ==
    /\ UNCHANGED loading
    /\ isFetchingRef' = FALSE

\* The finally block of fetchArticles
FetchFinally ==
    /\ loading' = FALSE
    /\ isFetchingRef' = FALSE

\* Variant: a restore that forgets setLoading(false)
loadCachedArticlesKeepsLoading ==
    /\ articles' = JSONparse(cache)
    /\ isInitialLoad' = FALSE
    /\ UNCHANGED loading

\* Variant: loadCachedArticles without setIsInitialLoad(false)
loadCachedArticlesKeepsInitialLoad ==
    /\ articles' = JSONparse(cache)
    /\ UNCHANGED isInitialLoad
    /\ loading' = FALSE

\* loadCachedArticles when the cached value parses: the three setters
loadCachedArticles ==
    /\ articles' = JSONparse(cache)
    /\ isInitialLoad' = FALSE
    /\ loading' = FALSE

\* Variant: the save effect with an empty dependency list
SaveEffectRunsOnMountOnly(isMounted, changed, len) == ~isMounted /\ len > 0

\* The cache save effect calls setItem: it runs at mount and when articles
\* changed, and writes when articles is non-empty
SaveEffectRuns(isMounted, changed, len) == (~isMounted \/ changed) /\ len > 0

\* Variant: setItem called outside a try block
SaveEffectUnprotected(saves) == saves /\ storage = "throws"

\* An exception of setItem leaves the save effect: never, the call is inside
\* try/catch
SaveEffectUncaught(saves) == FALSE

\* Variant: goToNext ignoring the event while a fetch is in flight
goToNextWhenIdle ==
    currentIndex' = IF CanGoNext(currentIndex, Len(articles)) /\ ~loading
                    THEN currentIndex + 1 ELSE currentIndex

goToNext ==
    currentIndex' = IF CanGoNext(currentIndex, Len(articles))
                    THEN currentIndex + 1 ELSE currentIndex

goToPrevious ==
    currentIndex' = IF CanGoPrevious(currentIndex)
                    THEN currentIndex - 1 ELSE currentIndex

\* Variant: a navigation that aborts the request in flight
NavigatedAborting(op) ==
    /\ lastOp' = op
    /\ effectsPending' = (currentIndex' # currentIndex)
    /\ rendered' = IF currentIndex' # currentIndex THEN View ELSE rendered
    /\ pending' = <<>>
    /\ UNCHANGED <<isFetchingRef, loading, error, invocations>>
    /\ issued' = FALSE
    /\ exitPath' = "none"
    /\ lastFailure' = NoFailure
    /\ lastPage' = <<>>
    /\ cacheLog' = NoCacheOps
    /\ UNCHANGED <<serverVars, cardVars>>
    /\ lastRequest' = NoRequest
    /\ UNCHANGED <<articles, isInitialLoad, cache, storage, served, mounted,
                   lastDeps, articlesChanged>>

\* A handler that only navigates: the render that follows a cursor change
Navigated(op) ==
    /\ lastOp' = op
    /\ effectsPending' = (currentIndex' # currentIndex)
    /\ rendered' = IF currentIndex' # currentIndex THEN View ELSE rendered
    /\ NoFetch
    /\ lastFailure' = NoFailure
    /\ lastPage' = <<>>
    /\ cacheLog' = NoCacheOps
    /\ UNCHANGED <<serverVars, cardVars>>
    /\ lastRequest' = NoRequest
    /\ UNCHANGED <<articles, isInitialLoad, cache, storage, served, mounted,
                   lastDeps, articlesChanged>>

----------------------------------------------------------------------------
(* Server: query parameters, parseInt, Math.min *)

\* The default and the cap of the batch endpoint's count
DEFAULT_COUNT == 5

MAX_COUNT == 10

\* Article ids are 1..MaxIds; a batch stores at most MaxBatch articles
MaxIds == 2

MaxBatch == 2

Ids == 1..MaxIds

\* The concurrent requests the server handles: two, as many as a race needs
Requests == {"r1", "r2"}

\* A JavaScript number: an integer or NaN
Num(v) == [nan |-> FALSE, val |-> v]

NaN == [nan |-> TRUE, val |-> 0]

DigitChars == {"0", "1", "2", "3", "4", "5", "6", "7", "8", "9"}

DigitValue(c) ==
    CASE c = "0" -> 0 [] c = "1" -> 1 [] c = "2" -> 2 [] c = "3" -> 3
      [] c = "4" -> 4 [] c = "5" -> 5 [] c = "6" -> 6 [] c = "7" -> 7
      [] c = "8" -> 8 [] c = "9" -> 9

DigitChar(n) ==
    CASE n = 0 -> "0" [] n = 1 -> "1" [] n = 2 -> "2" [] n = 3 -> "3"
      [] n = 4 -> "4" [] n = 5 -> "5" [] n = 6 -> "6" [] n = 7 -> "7"
      [] n = 8 -> "8" [] n = 9 -> "9"

\* The value of the leading decimal digits of s, after acc
RECURSIVE LeadingDigits(_, _)
LeadingDigits(s, acc) ==
    IF s = <<>> \/ Head(s) \notin DigitChars THEN acc
    ELSE LeadingDigits(Tail(s), 10 * acc + DigitValue(Head(s)))

\* parseInt of a string given as its characters: an optional sign, then the
\* leading digits; NaN when no digit follows
ParseInt(s) ==
    LET signed == s # <<>> /\ Head(s) \in {"-", "+"}
        digits == IF signed THEN Tail(s) ELSE s
    IN  IF digits = <<>> \/ Head(digits) \notin DigitChars THEN NaN
        ELSE IF signed /\ Head(s) = "-" THEN Num(0 - LeadingDigits(digits, 0))
        ELSE Num(LeadingDigits(digits, 0))

\* Math.min: NaN if either argument is NaN
MathMin(a, b) == IF a.nan \/ b.nan THEN NaN ELSE Num(Min(a.val, b.val))

\* a <= b of JavaScript: false when either side is NaN
AtMost(a, b) == ~a.nan /\ ~b.nan /\ a.val <= b.val

\* req.query.count when the URL has no count
NoParam == [present |-> FALSE, text |-> <<>>]

\* Values of req.query.count: absent, or a string
CountParams ==
    {NoParam}
    \cup {[present |-> TRUE, text |-> t] :
            t \in {<<>>, <<"0">>, <<"-", "2">>, <<"3">>, <<"1", "1">>,
                   <<"a", "b", "c">>, <<"7", "x">>}}

\* limitedCount of the batch handler
LimitedCount(param) ==
    LET count == IF param.present /\ param.text # <<>> THEN ParseInt(param.text)
                 ELSE Num(DEFAULT_COUNT)
    IN  MathMin(count, Num(MAX_COUNT))

\* The number of articles getRandomArticles(count) tries to obtain: its loops
\* run while i < count, not at all for NaN
ArticlesWanted(count) == IF count.nan \/ count.val < 0 THEN 0 ELSE count.val

\* Values of req.params.id
IdParams == {<<DigitChar(i)>> : i \in Ids} \cup {<<"x">>, <<"1", "x">>}

----------------------------------------------------------------------------
(* Server: wikipediaService, the calls to the Wikipedia API *)

MIN_EXTRACT_LENGTH == 200

\* maxAttempts of getRandomArticle
maxAttempts == 5

\* getRandomArticles, images only: maxAttempts = count * 3
ATTEMPTS_PER_ARTICLE == 3

\* The length of 'No extract available'
NO_EXTRACT_LENGTH == 20

\* getRandomArticles is called with a count of 0..MaxCount
MaxCount == 2

Counts == 0..MaxCount

\* Titles, as their parts
Titles == {<<"Paris">>, <<"List of", "rivers">>,
           <<"Mercury", "(", "disambiguation", ")">>}

\* String.prototype.includes, for one part
includes(title, part) == \E i \in 1..Len(title) : title[i] = part

\* Lengths of page.extract; 0 also stands for a page without extract
ExtractLengths == {0, MIN_EXTRACT_LENGTH - 1, MIN_EXTRACT_LENGTH}

\* page.thumbnail?.source
Thumbnails == {"undefined", "", "url"}

\* The page of a content response
Pages == [thumbnail : Thumbnails, extract : ExtractLengths, title : Titles]

NoPage == [thumbnail |-> "undefined", extract |-> 0, title |-> <<>>]

\* The random response: a title, a rejected request, a response without
\* query.random[0]
RandomOutcomes == {"ok", "throws", "empty"}

\* The content response, when it has no page: a rejected request, a response
\* without query.pages
ContentFailures == {"throws", "nopages"}

hasThumbnail(page) == page.thumbnail \notin {"undefined", ""}

\* Variant: a filter that lets list and disambiguation pages through
FailsQualityButTitle(page, requireThumbnail, minExtractLength) ==
    \/ requireThumbnail /\ ~hasThumbnail(page)
    \/ page.extract < minExtractLength

\* The condition under which getRandomArticle skips a page
FailsQuality(page, requireThumbnail, minExtractLength) ==
    \/ requireThumbnail /\ ~hasThumbnail(page)
    \/ page.extract < minExtractLength
    \/ includes(page.title, "List of")
    \/ includes(page.title, "disambiguation")

\* The Article made of a page: extract || 'No extract available',
\* thumbnail?.source || null
FormatArticle(page) ==
    [thumbnail |-> IF hasThumbnail(page) THEN page.thumbnail ELSE "null",
     extract |-> IF page.extract = 0 THEN NO_EXTRACT_LENGTH ELSE page.extract,
     title |-> page.title]

\* The service at rest. fn is the function called ("single" for
\* getRandomArticle alone, "quality" and "images" for the two
\* getRandomArticles); filter tells the getRandomArticle with the quality
\* loop from the plain one; need, left and roundGot are the count of the
\* current getRandomArticles level, its promises not yet settled and its
\* promises fulfilled; articles holds the thumbnail of each article collected
IdleService ==
    [fn |-> "none", pc |-> "idle", filter |-> FALSE, count |-> 0, need |-> 0,
     left |-> 0, roundGot |-> 0, requireThumbnail |-> FALSE,
     minExtractLength |-> 0, attemptCount |-> 0, attempts |-> 0, calls |-> 0,
     articles |-> <<>>, threw |-> FALSE]

NoServiceLog == [op |-> "none", outcome |-> "none", page |-> NoPage]

\* A call of getRandomArticle begins
NewCall(s) == [s EXCEPT !.pc = "random", !.attemptCount = 0, !.calls = 0]

\* getRandomArticle called by itself has settled
SingleSettled(s, ok) == [s EXCEPT !.pc = "done", !.threw = ~ok]

\* getRandomArticles with quality filters: one promise of the round has
\* settled; after the last, Promise.allSettled resolves and the function
\* returns, or calls itself for the missing articles with relaxed criteria
QualitySettled(s, ok, article) ==
    LET got == IF ok THEN Append(s.articles, article.thumbnail) ELSE s.articles
        roundGot == s.roundGot + (IF ok THEN 1 ELSE 0)
    IN  IF s.left > 1
        THEN NewCall([s EXCEPT !.articles = got, !.roundGot = roundGot, !.left = @ - 1])
        ELSE IF roundGot < s.need
        THEN NewCall([s EXCEPT !.articles = got, !.need = @ - roundGot,
                               !.left = s.need - roundGot, !.roundGot = 0,
                               !.requireThumbnail = FALSE, !.minExtractLength = 0])
        ELSE [s EXCEPT !.articles = got, !.roundGot = roundGot, !.left = 0,
                       !.pc = "done"]

\* Variant: images-only getRandomArticles that keeps every article
ImagesSettledKeepsAll(s, ok, article) ==
    LET got == IF ok THEN Append(s.articles, article.thumbnail) ELSE s.articles
    IN  IF Len(got) < s.count /\ s.attempts < s.count * ATTEMPTS_PER_ARTICLE
        THEN NewCall([s EXCEPT !.articles = got, !.attempts = @ + 1])
        ELSE [s EXCEPT !.articles = got, !.pc = "done"]

\* getRandomArticles, images only: the awaited getRandomArticle has settled;
\* the loop goes on or the function returns
ImagesSettled(s, ok, article) ==
    LET got == IF ok /\ article.thumbnail # "null"
               THEN Append(s.articles, article.thumbnail) ELSE s.articles
    IN  IF Len(got) < s.count /\ s.attempts < s.count * ATTEMPTS_PER_ARTICLE
        THEN NewCall([s EXCEPT !.articles = got, !.attempts = @ + 1])
        ELSE [s EXCEPT !.articles = got, !.pc = "done"]

\* The caller of a getRandomArticle that returned an article or threw
CallSettled(s, ok, article) ==
    CASE s.fn = "single" -> SingleSettled(s, ok)
      [] s.fn = "quality" -> QualitySettled(s, ok, article)
      [] s.fn = "images" -> ImagesSettled(s, ok, article)

ServiceFree == svc.pc \in {"idle", "done"}

\* getRandomArticle(requireThumbnail, minExtractLength) is called
CallGetRandomArticle ==
    /\ ServiceFree
    /\ \E requireThumbnail \in BOOLEAN : \E minExtractLength \in {0, MIN_EXTRACT_LENGTH} :
          svc' = NewCall([IdleService EXCEPT !.fn = "single", !.filter = TRUE,
                                             !.requireThumbnail = requireThumbnail,
                                             !.minExtractLength = minExtractLength])
    /\ svcLog' = [NoServiceLog EXCEPT !.op = "call"]
    /\ UNCHANGED <<db, tasks, serverLog, feedVars, cardVars>>

\* getRandomArticles(count, requireThumbnail, minExtractLength) with quality
\* filters is called
CallGetRandomArticles ==
    /\ ServiceFree
    /\ \E count \in Counts : \E requireThumbnail \in BOOLEAN :
       \E minExtractLength \in {0, MIN_EXTRACT_LENGTH} :
          LET s == [IdleService EXCEPT !.fn = "quality", !.filter = TRUE,
                                       !.count = count, !.need = count, !.left = count,
                                       !.requireThumbnail = requireThumbnail,
                                       !.minExtractLength = minExtractLength]
          IN  svc' = IF count > 0 THEN NewCall(s) ELSE [s EXCEPT !.pc = "done"]
    /\ svcLog' = [NoServiceLog EXCEPT !.op = "call"]
    /\ UNCHANGED <<db, tasks, serverLog, feedVars, cardVars>>

\* getRandomArticles(count), images only, is called
CallGetRandomArticlesWithImages ==
    /\ ServiceFree
    /\ \E count \in Counts :
          LET s == [IdleService EXCEPT !.fn = "images", !.count = count]
          IN  svc' = IF 0 < count /\ 0 < count * ATTEMPTS_PER_ARTICLE
                     THEN NewCall([s EXCEPT !.attempts = 1])
                     ELSE [s EXCEPT !.pc = "done"]
    /\ svcLog' = [NoServiceLog EXCEPT !.op = "call"]
    /\ UNCHANGED <<db, tasks, serverLog, feedVars, cardVars>>

\* The response to list=random arrives
RandomResponse ==
    /\ svc.pc = "random"
    /\ \E outcome \in RandomOutcomes :
          LET s == [svc EXCEPT !.calls = @ + 1]
          IN  IF outcome = "ok"
              THEN /\ svc' = [s EXCEPT !.pc = "content"]
                   /\ svcLog' = [NoServiceLog EXCEPT !.op = "random", !.outcome = "ok"]
              ELSE /\ svc' = CallSettled(s, FALSE, FormatArticle(NoPage))
                   /\ svcLog' = [NoServiceLog EXCEPT !.op = "random", !.outcome = "threw"]
    /\ UNCHANGED <<db, tasks, serverLog, feedVars, cardVars>>

\* The response to the content query arrives
ContentResponse ==
    /\ svc.pc = "content"
    /\ LET s == [svc EXCEPT !.calls = @ + 1]
       IN  \/ \E failure \in ContentFailures :
                /\ svc' = CallSettled(s, FALSE, FormatArticle(NoPage))
                /\ svcLog' = [NoServiceLog EXCEPT !.op = "content", !.outcome = "threw"]
           \/ \E page \in Pages :
                IF svc.filter /\ FailsQuality(page, svc.requireThumbnail, svc.minExtractLength)
                THEN IF svc.attemptCount + 1 < maxAttempts
                     THEN /\ svc' = [s EXCEPT !.pc = "random", !.attemptCount = @ + 1]
                          /\ svcLog' = [op |-> "content", outcome |-> "skipped", page |-> page]
                     ELSE /\ svc' = CallSettled([s EXCEPT !.attemptCount = @ + 1], FALSE,
                                                FormatArticle(NoPage))
                          /\ svcLog' = [op |-> "content", outcome |-> "gave up", page |-> page]
                ELSE /\ svc' = CallSettled(s, TRUE, FormatArticle(page))
                     /\ svcLog' = [op |-> "content", outcome |-> "returned", page |-> page]
    /\ UNCHANGED <<db, tasks, serverLog, feedVars, cardVars>>

----------------------------------------------------------------------------
(* Server: the tables and the SQL statements *)

\* Per id the rows of articles (each row names the request that inserted it)
\* and the number of rows of likes
EmptyDb == [articles |-> [i \in Ids |-> <<>>], likes |-> [i \in Ids |-> 0]]

\* SELECT id FROM articles WHERE id = ?
ArticleStored(d, id) == d.articles[id] # <<>>

\* INSERT into a table with PRIMARY KEY fails when the key has a row
KeyViolated(rows) == rows > 0

InsertArticle(d, id, by) == [d EXCEPT !.articles[id] = Append(@, by)]

\* Variant: likeArticle without its look for an existing like
LikeNeverStored(d, id) == FALSE

\* SELECT article_id FROM likes WHERE article_id = ?
LikeStored(d, id) == d.likes[id] > 0

InsertLike(d, id) == [d EXCEPT !.likes[id] = @ + 1]

\* DELETE FROM likes WHERE article_id = ?
DeleteLike(d, id) == [d EXCEPT !.likes[id] = 0]

NoArticle == [found |-> FALSE, isLiked |-> FALSE]

\* getArticleById: the article LEFT JOIN likes, null when no row
getArticleById(d, id) ==
    IF d.articles[id] = <<>> THEN NoArticle
    ELSE [found |-> TRUE, isLiked |-> d.likes[id] > 0]

----------------------------------------------------------------------------
(* Server: request handlers, one step per awaited statement *)

IdleTask == [op |-> "none", by |-> "none", pc |-> "idle", id |-> 0, left |-> 0,
             status |-> 0, body |-> "none", liked |-> FALSE]

Respond(t, status, body, liked) ==
    [t EXCEPT !.pc = "done", !.status = status, !.body = body, !.liked = liked,
              !.left = 0]

\* The handlers' catch blocks: res.status(500).json({error, message})
Fail500(t) == Respond(t, 500, "error message", FALSE)

\* saveArticles: the loop goes to the next article, or the handler goes on
\* to addLikeStatusToArticles
NextArticle(t, nextId) ==
    IF t.left > 1 THEN [t EXCEPT !.pc = "saveSelect", !.id = nextId, !.left = @ - 1]
    ELSE [t EXCEPT !.pc = "likeStatus", !.id = 0, !.left = 0]

\* Variant: likeArticle without the check that the article exists
likeGetUnchecked(d, t) == [db |-> d, task |-> [t EXCEPT !.pc = "likeSelect"]]

\* likeArticle: getArticleById, throw when the article is not found
likeGet(d, t) ==
    [db |-> d,
     task |-> IF getArticleById(d, t.id).found
              THEN [t EXCEPT !.pc = "likeSelect"] ELSE Fail500(t)]

\* Variant: the like endpoints answering 500 when the article is not found
regetFailing(d, t) ==
    LET a == getArticleById(d, t.id)
    IN  [db |-> d,
         task |-> IF a.found THEN Respond(t, 200, "article", a.isLiked)
                  ELSE Fail500(t)]

\* The like endpoints after likeArticle / unlikeArticle: getArticleById, 404
\* when null, else 200 with the article
reget(d, t) ==
    LET a == getArticleById(d, t.id)
    IN  [db |-> d,
         task |-> IF a.found THEN Respond(t, 200, "article", a.isLiked)
                  ELSE Respond(t, 404, "error", FALSE)]

\* The statement a handler awaits at t.pc, applied to the tables
Step(d, t, nextId) ==
    CASE t.pc = "saveSelect" ->
            [db |-> d,
             task |-> IF ArticleStored(d, t.id) THEN NextArticle(t, nextId)
                      ELSE [t EXCEPT !.pc = "saveInsert"]]
      [] t.pc = "saveInsert" ->
            IF KeyViolated(Len(d.articles[t.id]))
            THEN [db |-> d, task |-> Fail500(t)]
            ELSE [db |-> InsertArticle(d, t.id, t.by), task |-> NextArticle(t, nextId)]
      [] t.pc = "likeStatus" ->
            [db |-> d, task |-> Respond(t, 200, "articles", FALSE)]
      [] t.pc = "likeGet" -> likeGet(d, t)
      [] t.pc = "likeSelect" ->
            [db |-> d,
             task |-> IF LikeStored(d, t.id) THEN [t EXCEPT !.pc = "reget"]
                      ELSE [t EXCEPT !.pc = "likeInsert"]]
      [] t.pc = "likeInsert" ->
            IF KeyViolated(d.likes[t.id])
            THEN [db |-> d, task |-> Fail500(t)]
            ELSE [db |-> InsertLike(d, t.id), task |-> [t EXCEPT !.pc = "reget"]]
      [] t.pc = "unlikeDelete" ->
            [db |-> DeleteLike(d, t.id), task |-> [t EXCEPT !.pc = "reget"]]
      [] t.pc = "reget" -> reget(d, t)

\* A handler run from t to its response with no other request in between
RECURSIVE RunAlone(_, _)
RunAlone(d, t) ==
    IF t.pc = "done" THEN [db |-> d, task |-> t]
    ELSE LET s == Step(d, t, 1) IN RunAlone(s.db, s.task)

\* likeArticle(id), then the endpoint's getArticleById
LikeAlone(d, id) ==
    RunAlone(d, [IdleTask EXCEPT !.by = "r1", !.op = "like", !.pc = "likeGet", !.id = id])

\* unlikeArticle(id), then the endpoint's getArticleById
UnlikeAlone(d, id) ==
    RunAlone(d, [IdleTask EXCEPT !.by = "r1", !.op = "unlike", !.pc = "unlikeDelete",
                                 !.id = id])

NoServerLog ==
    [request |-> "none", op |-> "none", param |-> NoParam, requested |-> Num(0)]

ServerAtRest ==
    /\ db = EmptyDb
    /\ tasks = [r \in Requests |-> IdleTask]
    /\ serverLog = NoServerLog
    /\ svc = IdleService
    /\ svcLog = NoServiceLog

CanStart(r) == tasks[r].pc \in {"idle", "done"}

\* GET /api/random/batch up to its first database statement: the count is
\* limited, getRandomArticles returns n articles
StartBatch ==
    \E r \in Requests : \E param \in CountParams :
      LET limitedCount == LimitedCount(param)
      IN  \E n \in 0..Min(MaxBatch, ArticlesWanted(limitedCount)) :
          \E first \in IF n = 0 THEN {1} ELSE Ids :
            /\ CanStart(r)
            /\ tasks' = [tasks EXCEPT ![r] =
                           IF n = 0
                           THEN [IdleTask EXCEPT !.by = r, !.op = "batch", !.pc = "likeStatus"]
                           ELSE [IdleTask EXCEPT !.by = r, !.op = "batch", !.pc = "saveSelect",
                                                 !.id = first, !.left = n]]
            /\ serverLog' = [request |-> r, op |-> "batch", param |-> param,
                             requested |-> limitedCount]
            /\ UNCHANGED <<db, svc, svcLog, feedVars, cardVars>>

\* POST /api/articles/:id/like up to its first database statement
StartLike ==
    \E r \in Requests : \E param \in IdParams :
      LET articleId == ParseInt(param)
      IN  /\ CanStart(r)
          /\ tasks' = [tasks EXCEPT ![r] =
                         IF articleId.nan
                         THEN Respond([IdleTask EXCEPT !.by = r, !.op = "like"], 400, "error", FALSE)
                         ELSE [IdleTask EXCEPT !.by = r, !.op = "like", !.pc = "likeGet",
                                               !.id = articleId.val]]
          /\ serverLog' = [NoServerLog EXCEPT !.request = r, !.op = "like"]
          /\ UNCHANGED <<db, svc, svcLog, feedVars, cardVars>>

\* DELETE /api/articles/:id/like up to its first database statement
StartUnlike ==
    \E r \in Requests : \E param \in IdParams :
      LET articleId == ParseInt(param)
      IN  /\ CanStart(r)
          /\ tasks' = [tasks EXCEPT ![r] =
                         IF articleId.nan
                         THEN Respond([IdleTask EXCEPT !.by = r, !.op = "unlike"], 400, "error", FALSE)
                         ELSE [IdleTask EXCEPT !.by = r, !.op = "unlike", !.pc = "unlikeDelete",
                                               !.id = articleId.val]]
          /\ serverLog' = [NoServerLog EXCEPT !.request = r, !.op = "unlike"]
          /\ UNCHANGED <<db, svc, svcLog, feedVars, cardVars>>

\* One awaited database statement of one handler completes
HandlerStep ==
    \E r \in Requests : \E nextId \in Ids :
      /\ tasks[r].pc \notin {"idle", "done"}
      /\ LET s == Step(db, tasks[r], nextId)
         IN  /\ db' = s.db
             /\ tasks' = [tasks EXCEPT ![r] = s.task]
      /\ serverLog' = [NoServerLog EXCEPT !.request = r, !.op = "step"]
      /\ UNCHANGED <<svc, svcLog, feedVars, cardVars>>

----------------------------------------------------------------------------
(* ArticleCard: the like button *)

MaxCards == 2

CardIds == 1..MaxCards

\* useState of one card, and the closure of the handleLikeToggle call that
\* awaits onLikeToggle: was is its isLiked, sent its newLikeState
InitialCard(liked) ==
    [isLiked |-> liked, isLikeLoading |-> FALSE, expanded |-> FALSE,
     awaiting |-> FALSE, was |-> FALSE, sent |-> FALSE]

\* handleLikeToggle up to its await
Toggled(card) ==
    [card EXCEPT !.isLikeLoading = TRUE, !.isLiked = ~card.isLiked,
                 !.awaiting = TRUE, !.was = card.isLiked, !.sent = ~card.isLiked]

\* handleLikeToggle after the promise resolved: finally
Resolved(card) ==
    [card EXCEPT !.isLikeLoading = FALSE, !.awaiting = FALSE,
                 !.was = FALSE, !.sent = FALSE]

\* Variant: a catch block that only logs
RejectedUnreverted(card) ==
    [card EXCEPT !.isLikeLoading = FALSE, !.awaiting = FALSE,
                 !.was = FALSE, !.sent = FALSE]

\* handleLikeToggle after the promise rejected: catch, finally
Rejected(card) ==
    [card EXCEPT !.isLiked = card.was, !.isLikeLoading = FALSE,
                 !.awaiting = FALSE, !.was = FALSE, !.sent = FALSE]

NoCardLog == [op |-> "none", card |-> 0, called |-> FALSE]

CardsAtRest ==
    /\ cards = [c \in CardIds |-> InitialCard(FALSE)]
    /\ onLikeToggle = FALSE
    /\ cardLog = NoCardLog

\* Variant: a like button that is never disabled, with a handler that does
\* not test isLikeLoading
handleLikeToggleUnguarded ==
    \E c \in CardIds :
      /\ IF ~onLikeToggle
         THEN /\ UNCHANGED cards
              /\ cardLog' = [op |-> "toggle", card |-> c, called |-> FALSE]
         ELSE /\ cards' = [cards EXCEPT ![c] = Toggled(@)]
              /\ cardLog' = [op |-> "toggle", card |-> c, called |-> TRUE]
      /\ UNCHANGED <<onLikeToggle, feedVars, serverVars>>

\* The like button is pressed. While isLikeLoading the button is disabled and
\* the handler, if it is called all the same, returns at its guard
handleLikeToggle ==
    \E c \in CardIds :
      /\ IF ~onLikeToggle \/ cards[c].isLikeLoading
         THEN /\ UNCHANGED cards
              /\ cardLog' = [op |-> "toggle", card |-> c, called |-> FALSE]
         ELSE /\ cards' = [cards EXCEPT ![c] = Toggled(@)]
              /\ cardLog' = [op |-> "toggle", card |-> c, called |-> TRUE]
      /\ UNCHANGED <<onLikeToggle, feedVars, serverVars>>

\* The promise of onLikeToggle resolves
ToggleResolves ==
    \E c \in CardIds :
      /\ cards[c].awaiting
      /\ cards' = [cards EXCEPT ![c] = Resolved(@)]
      /\ cardLog' = [op |-> "resolved", card |-> c, called |-> FALSE]
      /\ UNCHANGED <<onLikeToggle, feedVars, serverVars>>

\* The promise of onLikeToggle rejects
ToggleRejects ==
    \E c \in CardIds :
      /\ cards[c].awaiting
      /\ cards' = [cards EXCEPT ![c] = Rejected(@)]
      /\ cardLog' = [op |-> "rejected", card |-> c, called |-> FALSE]
      /\ UNCHANGED <<onLikeToggle, feedVars, serverVars>>

toggleExpanded ==
    \E c \in CardIds :
      /\ cards' = [cards EXCEPT ![c].expanded = ~@]
      /\ cardLog' = [op |-> "expand", card |-> c, called |-> FALSE]
      /\ UNCHANGED <<onLikeToggle, feedVars, serverVars>>

----------------------------------------------------------------------------
\* The App component after construction
InitFeed ==
    /\ articles = <<>>
    /\ currentIndex = 0
    /\ loading = TRUE
    /\ error = Null
    /\ isInitialLoad = TRUE
    /\ isFetchingRef = FALSE
    /\ scrollTimeoutRef = 0
    /\ timers = {}
    /\ cache \in InitialCaches
    /\ storage \in {"ok", "throws"}
    /\ pending = <<>>
    /\ served = Len(cache.elems)
    /\ effectsPending = TRUE
    /\ mounted = FALSE
    /\ lastDeps = [currentIndex |-> 0, length |-> 0, loading |-> TRUE]
    /\ articlesChanged = FALSE
    /\ rendered = [error |-> FALSE, loading |-> TRUE, isInitialLoad |-> TRUE]
    /\ lastOp = "mount"
    /\ lastFailure = NoFailure
    /\ lastPage = <<>>
    /\ issued = FALSE
    /\ exitPath = "none"
    /\ invocations = 0
    /\ cacheLog = NoCacheOps
    /\ lastRequest = NoRequest

\* The App alone: no request reaches the server, no card is touched
Init == InitFeed /\ ServerAtRest /\ CardsAtRest

\* The passive effects of the last commit, in source order: the initial
\* effect (mount only), the cache save effect, the prefetch effect, and the
\* cleanup of the handleWheel effect when goToNext or goToPrevious changed.
RunEffects ==
    /\ effectsPending
    /\ LET restores == ~mounted /\ CacheRestores
           saves == SaveEffectRuns(mounted, articlesChanged, Len(articles))
           prefetches == (~mounted \/ lastDeps # Deps)
                         /\ ShouldPrefetch(currentIndex, Len(articles), loading)
           resubscribes == mounted /\ (lastDeps.currentIndex # currentIndex
                                       \/ lastDeps.length # Len(articles))
       IN  /\ IF restores
              THEN /\ loadCachedArticles
                   /\ UNCHANGED <<isFetchingRef, error, pending, invocations>>
                   /\ issued' = FALSE
                   /\ exitPath' = "none"
                   /\ lastOp' = "restore"
              ELSE /\ IF ~mounted \/ prefetches THEN fetchArticles ELSE NoFetch
                   /\ UNCHANGED <<articles, isInitialLoad, lastOp>>
           /\ cache' = IF saves /\ storage = "ok" THEN JSONstringify(articles) ELSE cache
           /\ timers' = IF resubscribes
                        THEN {t \in timers : t.id # scrollTimeoutRef} ELSE timers
           /\ articlesChanged' = restores
           /\ cacheLog' = [reads |-> IF mounted THEN 0 ELSE 1,
                           writes |-> IF saves THEN 1 ELSE 0,
                           uncaught |-> SaveEffectUncaught(saves)]
    /\ effectsPending' = FALSE
    /\ mounted' = TRUE
    /\ lastDeps' = Deps
    /\ lastFailure' = NoFailure
    /\ lastPage' = <<>>
    /\ lastRequest' = NoRequest
    /\ UNCHANGED <<currentIndex, scrollTimeoutRef, storage, served, rendered>>
    /\ UNCHANGED <<serverVars, cardVars>>

\* The render that commits state updates made inside effects
Rerender ==
    /\ ~effectsPending
    /\ mounted
    /\ rendered # View \/ articlesChanged
    /\ rendered' = View
    /\ effectsPending' = TRUE
    /\ issued' = FALSE
    /\ exitPath' = "none"
    /\ lastFailure' = NoFailure
    /\ lastPage' = <<>>
    /\ cacheLog' = NoCacheOps
    /\ UNCHANGED <<serverVars, cardVars>>
    /\ lastRequest' = NoRequest
    /\ UNCHANGED <<articles, currentIndex, loading, error, isInitialLoad,
                   isFetchingRef, scrollTimeoutRef, timers, cache, storage,
                   pending, served, mounted, lastDeps, articlesChanged,
                   lastOp, invocations>>

Idle == ~effectsPending /\ mounted

handleKeyDown ==
    /\ Idle
    /\ \E key \in Keys :
          /\ IF key \in {"ArrowDown", "j"} THEN goToNext
             ELSE IF key \in {"ArrowUp", "k"} THEN goToPrevious
             ELSE UNCHANGED currentIndex
          /\ Navigated(IF key \in {"ArrowDown", "j"} THEN "next"
                       ELSE IF key \in {"ArrowUp", "k"} THEN "previous" ELSE "none")
    /\ UNCHANGED <<scrollTimeoutRef, timers>>

\* useSwipeable handlers of the App container and of Controls
onSwipedUp ==
    /\ Idle
    /\ ~rendered.error
    /\ goToNext
    /\ Navigated("next")
    /\ UNCHANGED <<scrollTimeoutRef, timers>>

onSwipedDown ==
    /\ Idle
    /\ ~rendered.error
    /\ goToPrevious
    /\ Navigated("previous")
    /\ UNCHANGED <<scrollTimeoutRef, timers>>

\* Controls buttons: disabled={!hasNext || isLoading}
onNextClick ==
    /\ Idle
    /\ FeedShown
    /\ currentIndex < Len(articles) - 1
    /\ ~rendered.loading
    /\ goToNext
    /\ Navigated("next")
    /\ UNCHANGED <<scrollTimeoutRef, timers>>

onPreviousClick ==
    /\ Idle
    /\ FeedShown
    /\ currentIndex > 0
    /\ ~rendered.loading
    /\ goToPrevious
    /\ Navigated("previous")
    /\ UNCHANGED <<scrollTimeoutRef, timers>>

FreeTimerIds(ts) == {i \in 1..MaxTimers : \A t \in ts : t.id # i}

\* Variant: a wheel handler that does not clear the pending timeout
handleWheelKeepsTimer ==
    /\ Idle
    /\ \E deltaY \in DeltaYs :
          LET cleared == timers
          IN  /\ FreeTimerIds(cleared) # {}
              /\ LET id == CHOOSE i \in FreeTimerIds(cleared) :
                              \A j \in FreeTimerIds(cleared) : i <= j
                     overrode == \E t \in timers :
                                    t.id = scrollTimeoutRef /\ t.deltaY # deltaY
                 IN  /\ timers' = cleared \cup {[id |-> id, deltaY |-> deltaY,
                                               overrode |-> overrode]}
                     /\ scrollTimeoutRef' = id
    /\ lastOp' = "wheel"
    /\ NoFetch
    /\ lastFailure' = NoFailure
    /\ lastPage' = <<>>
    /\ cacheLog' = NoCacheOps
    /\ UNCHANGED <<serverVars, cardVars>>
    /\ lastRequest' = NoRequest
    /\ UNCHANGED <<articles, currentIndex, isInitialLoad, cache, storage, served,
                   effectsPending, mounted, lastDeps, articlesChanged, rendered>>

\* A wheel event: handleWheel of the wheel effect
handleWheel ==
    /\ Idle
    /\ \E deltaY \in DeltaYs :
          LET cleared == IF scrollTimeoutRef # 0
                         THEN {t \in timers : t.id # scrollTimeoutRef} ELSE timers
          IN  /\ FreeTimerIds(cleared) # {}
              /\ LET id == CHOOSE i \in FreeTimerIds(cleared) :
                              \A j \in FreeTimerIds(cleared) : i <= j
                     overrode == \E t \in timers :
                                    t.id = scrollTimeoutRef /\ t.deltaY # deltaY
                 IN  /\ timers' = cleared \cup {[id |-> id, deltaY |-> deltaY,
                                               overrode |-> overrode]}
                     /\ scrollTimeoutRef' = id
    /\ lastOp' = "wheel"
    /\ NoFetch
    /\ lastFailure' = NoFailure
    /\ lastPage' = <<>>
    /\ cacheLog' = NoCacheOps
    /\ UNCHANGED <<serverVars, cardVars>>
    /\ lastRequest' = NoRequest
    /\ UNCHANGED <<articles, currentIndex, isInitialLoad, cache, storage, served,
                   effectsPending, mounted, lastDeps, articlesChanged, rendered>>

\* The setTimeout callback of handleWheel, 100 ms after the event
WheelTimeout ==
    /\ Idle
    /\ \E t \in timers :
          /\ timers' = timers \ {t}
          /\ IF t.deltaY > 0 THEN goToNext
             ELSE IF t.deltaY < 0 THEN goToPrevious
             ELSE UNCHANGED currentIndex
          /\ Navigated(IF t.deltaY > 0 THEN "next"
                       ELSE IF t.deltaY < 0 THEN "previous" ELSE "none")
    /\ scrollTimeoutRef' = 0

\* The Try Again button of the error view: onClick={fetchArticles}
Retry ==
    /\ Idle
    /\ rendered.error
    /\ invocations < MaxInvocations
    /\ fetchArticles
    /\ lastOp' = "retry"
    /\ effectsPending' = issued'
    /\ rendered' = IF issued' THEN [error |-> FALSE, loading |-> TRUE,
                                    isInitialLoad |-> isInitialLoad]
                   ELSE rendered
    /\ lastFailure' = NoFailure
    /\ lastPage' = <<>>
    /\ cacheLog' = NoCacheOps
    /\ UNCHANGED <<serverVars, cardVars>>
    /\ lastRequest' = NoRequest
    /\ UNCHANGED <<articles, currentIndex, isInitialLoad, scrollTimeoutRef,
                   timers, cache, storage, served, mounted, lastDeps,
                   articlesChanged>>

RemoveAt(s, i) == SubSeq(s, 1, i - 1) \o SubSeq(s, i + 1, Len(s))

\* fetchArticles after its awaits: response ok and parsed
FetchSucceeds ==
    /\ Idle
    /\ rendered = View
    /\ \E i \in 1..Len(pending) : \E n \in 0..Min(MaxPage, pending[i].count) :
          /\ served + n <= MaxItems
          /\ articles' = AppendPage(articles, Page(served, n))
          /\ lastRequest' = pending[i]
          /\ lastPage' = Page(served, n)
          /\ served' = served + n
          /\ isInitialLoad' = IF pending[i].isInitialLoad THEN FALSE ELSE isInitialLoad
          /\ pending' = RemoveAt(pending, i)
          /\ invocations' = IF Len(pending) = 1 THEN 0 ELSE invocations
          /\ rendered' = [error |-> Truthy(error), loading |-> FALSE,
                          isInitialLoad |-> isInitialLoad']
    /\ FetchFinally
    /\ articlesChanged' = TRUE
    /\ effectsPending' = TRUE
    /\ lastOp' = "success"
    /\ lastFailure' = NoFailure
    /\ cacheLog' = NoCacheOps
    /\ UNCHANGED <<serverVars, cardVars>>
    /\ issued' = FALSE
    /\ exitPath' = "success"
    /\ UNCHANGED <<currentIndex, error, scrollTimeoutRef, timers, cache, storage,
                   mounted, lastDeps>>

\* fetchArticles after its awaits: the fetch rejected, the response was not
\* ok, or response.json() rejected
FetchFails ==
    /\ Idle
    /\ rendered = View
    /\ \E i \in 1..Len(pending) : \E f \in Failures :
          /\ error' = ErrorMessage(f)
          /\ lastFailure' = f
          /\ lastRequest' = pending[i]
          /\ pending' = RemoveAt(pending, i)
          /\ invocations' = IF Len(pending) = 1 THEN 0 ELSE invocations
          /\ rendered' = [error |-> Truthy(error'), loading |-> FALSE,
                          isInitialLoad |-> isInitialLoad]
    /\ FetchFinally
    /\ effectsPending' = TRUE
    /\ lastOp' = "failure"
    /\ lastPage' = <<>>
    /\ cacheLog' = NoCacheOps
    /\ UNCHANGED <<serverVars, cardVars>>
    /\ issued' = FALSE
    /\ exitPath' = "failure"
    /\ UNCHANGED <<articles, currentIndex, isInitialLoad, scrollTimeoutRef, timers,
                   cache, storage, served, mounted, lastDeps, articlesChanged>>

Next ==
    \/ RunEffects
    \/ Rerender
    \/ handleKeyDown
    \/ onSwipedUp
    \/ onSwipedDown
    \/ onNextClick
    \/ onPreviousClick
    \/ handleWheel
    \/ WheelTimeout
    \/ Retry
    \/ FetchSucceeds
    \/ FetchFails

Spec == Init /\ [][Next]_vars

\* A fresh controller in the same browsing session: the page is reloaded, the
\* component is constructed again, sessionStorage keeps its item and the
\* requests of the old page are abandoned.
Reload ==
    /\ Idle
    /\ articles' = <<>>
    /\ currentIndex' = 0
    /\ loading' = TRUE
    /\ error' = Null
    /\ isInitialLoad' = TRUE
    /\ isFetchingRef' = FALSE
    /\ scrollTimeoutRef' = 0
    /\ timers' = {}
    /\ pending' = <<>>
    /\ effectsPending' = TRUE
    /\ mounted' = FALSE
    /\ lastDeps' = [currentIndex |-> 0, length |-> 0, loading |-> TRUE]
    /\ articlesChanged' = FALSE
    /\ rendered' = [error |-> FALSE, loading |-> TRUE, isInitialLoad |-> TRUE]
    /\ lastOp' = "mount"
    /\ lastFailure' = NoFailure
    /\ lastPage' = <<>>
    /\ cacheLog' = NoCacheOps
    /\ UNCHANGED <<serverVars, cardVars>>
    /\ lastRequest' = NoRequest
    /\ issued' = FALSE
    /\ exitPath' = "none"
    /\ invocations' = 0
    /\ UNCHANGED <<cache, storage, served>>

NextSession == Next \/ Reload

SpecSession == Init /\ [][NextSession]_vars

----------------------------------------------------------------------------
(* The server alone, and the cards alone *)

FeedAtRest == InitFeed /\ cache = NoItem /\ storage = "ok"

InitServer == FeedAtRest /\ ServerAtRest /\ CardsAtRest

NextServer ==
    \/ StartBatch
    \/ StartLike
    \/ StartUnlike
    \/ HandlerStep

SpecServer == InitServer /\ [][NextServer]_vars

InitCards ==
    /\ FeedAtRest
    /\ ServerAtRest
    /\ cards \in [CardIds -> {InitialCard(liked) : liked \in BOOLEAN}]
    /\ onLikeToggle \in BOOLEAN
    /\ cardLog = NoCardLog

NextCards ==
    \/ handleLikeToggle
    \/ ToggleResolves
    \/ ToggleRejects
    \/ toggleExpanded

SpecCards == InitCards /\ [][NextCards]_vars

NextService ==
    \/ CallGetRandomArticle
    \/ CallGetRandomArticles
    \/ CallGetRandomArticlesWithImages
    \/ RandomResponse
    \/ ContentResponse

\* The service alone; every request to the Wikipedia API gets its response
\* or its failure
SpecService ==
    /\ InitServer
    /\ [][NextService]_vars
    /\ WF_vars(RandomResponse)
    /\ WF_vars(ContentResponse)

\* The controller left alone on a network whose every fetch succeeds: React
\* runs pending effects and commits their updates, and every response arrives
NextUnattended ==
    \/ RunEffects
    \/ Rerender
    \/ FetchSucceeds

SpecUnattended ==
    /\ Init
    /\ [][NextUnattended]_vars
    /\ WF_vars(RunEffects)
    /\ WF_vars(Rerender)
    /\ WF_vars(FetchSucceeds)

----------------------------------------------------------------------------
(* Properties *)

IsPrefix(s, t) == Len(s) <= Len(t) /\ SubSeq(t, 1, Len(s)) = s

\* Nothing is left to run until the user, a timer or the network acts
Quiescent == Idle /\ rendered = View /\ ~articlesChanged

\* A step of a handler that calls goToNext or goToPrevious
Advance ==
    \/ handleKeyDown
    \/ onSwipedUp
    \/ onSwipedDown
    \/ onNextClick
    \/ onPreviousClick
    \/ WheelTimeout

FeedState == <<articles, currentIndex, loading, error, isInitialLoad,
               isFetchingRef, pending, cache, rendered, effectsPending>>

\* C1: dedup. At most one network request is outstanding in every reachable
\* state, and however many invocations of fetchArticles were issued since the
\* outstanding request was dispatched, exactly one network call was made.
C1_Dedup ==
    /\ Len(pending) <= 1
    /\ invocations >= 1 => Len(pending) = 1

\* C1 witness: two or more invocations before the first resolved, one request.
C1_Witness == invocations >= 2 /\ Len(pending) = 1 /\ exitPath = "dedup"

\* C2: append-only. A successful fetch leaves articles = articles before it
\* followed by the returned page in returned order; a failed fetch leaves
\* articles unchanged; every step keeps the earlier articles as a prefix.
C2_AppendOnly ==
    [][/\ lastOp' = "success" /\ exitPath' = "success" => articles' = articles \o lastPage'
       /\ exitPath' = "failure" => articles' = articles
       /\ IsPrefix(articles, articles')]_vars

\* C2 witness: a page of two or more articles was appended to a non-empty feed.
C2_Witness ==
    /\ exitPath = "success"
    /\ Len(lastPage) >= 2
    /\ Len(articles) > Len(lastPage)

\* C3: cursor bounds. 0 <= currentIndex <= Len(articles) - 1 whenever articles
\* is non-empty and currentIndex = 0 while it is empty; goToNext at the last
\* index and goToPrevious at index 0 leave the feed state unchanged.
C3_CursorBounds ==
    /\ [](IF Len(articles) = 0 THEN currentIndex = 0
          ELSE currentIndex >= 0 /\ currentIndex <= Len(articles) - 1)
    /\ [][(Advance /\ (\/ lastOp' = "next" /\ currentIndex >= Len(articles) - 1
                       \/ lastOp' = "previous" /\ currentIndex = 0))
          => UNCHANGED FeedState]_vars

\* C3 witness: goToNext was called at the last index (a feed of one article,
\* so the cursor cannot have moved there) and the cursor stayed.
C3_Witness ==
    /\ lastOp = "next"
    /\ Idle
    /\ Len(articles) = 1
    /\ currentIndex = Len(articles) - 1

ActiveCards(items, idx) ==
    {k \in DOMAIN Cards(items, idx) : Cards(items, idx)[k].isActive}

\* C5: displayed article. For non-empty articles exactly one card of the
\* rendered window is active and it is the card of articles[currentIndex].
C5_DisplayedArticle ==
    Len(articles) > 0 =>
        /\ Cardinality(ActiveCards(articles, currentIndex)) = 1
        /\ \A k \in ActiveCards(articles, currentIndex) :
              /\ Max(0, currentIndex - 1) + (k - 1) = currentIndex
              /\ Cards(articles, currentIndex)[k].article = articles[currentIndex + 1]

\* C6: render window. The materialized articles are exactly those of the index
\* range [max(0, currentIndex-1), min(Len(articles), currentIndex+2)), at most
\* three, with articles[currentIndex] among them; for ten articles the ranges
\* are [4,7) at 5, [0,2) at 0 and [8,10) at 9.
C6_RenderWindow ==
    Len(articles) > 0 =>
        LET w == RenderWindow(articles, currentIndex)
            lo == IF currentIndex - 1 > 0 THEN currentIndex - 1 ELSE 0
            hi == IF currentIndex + 2 < Len(articles) THEN currentIndex + 2
                  ELSE Len(articles)
        IN  /\ Len(w) = hi - lo
            /\ \A k \in 1..(hi - lo) : w[k] = articles[lo + k]
            /\ Len(w) <= 3
            /\ w[currentIndex - lo + 1] = articles[currentIndex + 1]
            /\ (Len(articles) = 10 /\ currentIndex = 5)
                   => w = <<articles[5], articles[6], articles[7]>>
            /\ (Len(articles) = 10 /\ currentIndex = 0)
                   => w = <<articles[1], articles[2]>>
            /\ (Len(articles) = 10 /\ currentIndex = 9)
                   => w = <<articles[9], articles[10]>>

\* C6 witness: ten articles, cursor at 5.
C6_Witness == Len(articles) = 10 /\ currentIndex = 5 /\ FeedShown

\* C7 as stated: a fresh controller that restored a saved feed has articles
\* equal to the saved sequence, currentIndex = 0, isInitialLoad and loading
\* false, and no network call results from the restore.
C7_Original ==
    lastOp = "restore" =>
        /\ articles = JSONparse(cache)
        /\ currentIndex = 0
        /\ ~isInitialLoad
        /\ ~loading
        /\ pending = <<>>

\* C7 amended: the fresh controller has articles equal to the saved sequence,
\* currentIndex = 0 and isInitialLoad false; when more than PREFETCH_THRESHOLD
\* articles were saved, loading is false and no network call is issued; when
\* one to PREFETCH_THRESHOLD articles were saved, the restore itself issues no
\* call but the prefetch effect of the next render issues exactly one.
C7_CacheRoundTrip ==
    lastOp = "restore" =>
        /\ articles = JSONparse(cache)
        /\ currentIndex = 0
        /\ ~isInitialLoad
        /\ Len(pending) <= 1
        /\ (Len(articles) > PREFETCH_THRESHOLD \/ Len(articles) = 0)
               => ~loading /\ pending = <<>>
        /\ (Len(articles) \in 1..PREFETCH_THRESHOLD /\ Quiescent)
               => loading /\ Len(pending) = 1
        /\ (rendered.isInitialLoad /\ ~effectsPending)
               => ~loading /\ pending = <<>>

\* C7 witness: a feed longer than any initial cache, so saved by an earlier
\* controller of the session, was restored and the controller is at rest.
C7_Witness ==
    /\ lastOp = "restore"
    /\ Quiescent
    /\ Len(articles) > MaxCached
    /\ pending = <<>>

\* C8 as stated: whenever an invocation of fetchArticles returns, by success,
\* failure or the dedup guard, loading and the in-flight flag are false.
C8_Original ==
    exitPath \in {"success", "failure", "dedup"} => ~loading /\ ~isFetchingRef

\* C8 amended: when an invocation returns by success or failure, loading and
\* the in-flight flag are false; when it returns early by the dedup guard both
\* are left as they were, true, with the first request still outstanding.
C8_Postcondition ==
    /\ exitPath \in {"success", "failure"} => ~loading /\ ~isFetchingRef
    /\ exitPath = "dedup" => loading /\ isFetchingRef /\ Len(pending) = 1

\* C8 witness: an invocation returned early by the dedup guard.
C8_Witness == exitPath = "dedup" /\ lastOp = "retry"

\* C9: no automatic retry. The effects that run after a failed fetch, with no
\* user input since, issue no network call.
C9_NoAutomaticRetry ==
    [][(effectsPending /\ lastOp = "failure") => ~issued']_vars

\* C10: failure outcome. A failed fetch leaves currentIndex and articles
\* unchanged and sets error to the failure's message: the rejection's message,
\* or "HTTP error <status>" for a non-ok response; the error view with its
\* retry button is then rendered.
C10_FailureOutcome ==
    [][lastFailure'.type # "none" =>
          /\ currentIndex' = currentIndex
          /\ articles' = articles
          /\ lastFailure' = [type |-> "HTTP", text |-> "500"] => error' = "HTTP error 500"
          /\ lastFailure' = [type |-> "HTTP", text |-> "404"] => error' = "HTTP error 404"
          /\ lastFailure'.type = "Error" => error' = lastFailure'.text
          /\ rendered'.error]_vars

\* C10 witness: two articles, cursor at 1, a fetch failed with status 500.
C10_Witness ==
    /\ Len(articles) = 2
    /\ currentIndex = 1
    /\ error = "HTTP error 500"
    /\ lastFailure.type = "HTTP"

\* C11: error view. The full-screen error view is in the DOM only where the
\* initial load failed and articles is empty; where articles is non-empty the
\* feed stays in the DOM after a fetch failure.
C11_ErrorView ==
    rendered.error => (Len(articles) = 0 /\ isInitialLoad)

\* The initial effect finds nothing to restore: no item under the key, or
\* getItem or JSON.parse throws
NothingToRestore ==
    cache.kind \in {"null", "empty"} \/ storage = "throws" \/ JSONparseThrows(cache)

\* C12: initialize fall-through. With no cache entry, or a read or parse that
\* fails, the initial effect issues exactly one fetch, leaves articles empty
\* until it resolves and does not set error; it reads the cache at most once,
\* and nothing reads it afterwards.
C12_InitializeFallThrough ==
    /\ [][(~mounted /\ effectsPending /\ NothingToRestore) =>
             /\ issued' /\ Len(pending') = 1 /\ invocations' = 1
             /\ articles' = <<>>
             /\ error' = Null
             /\ ~cacheLog'.uncaught]_vars
    /\ [][cacheLog'.reads <= 1 /\ (mounted => cacheLog'.reads = 0)]_vars
    /\ []((isInitialLoad /\ pending # <<>>) => articles = <<>>)

\* C12 witness: the stored item did not parse, the initial effect has read it
\* once and issued the first fetch.
C12_Witness ==
    /\ cache.kind = "garbage"
    /\ storage = "ok"
    /\ lastOp = "mount"
    /\ cacheLog.reads = 1
    /\ issued
    /\ Len(pending) = 1

\* C13: cache write on success. The effects that follow a successful fetch
\* which left articles non-empty call setItem once and, when the call does
\* not throw, the stored value is the whole of articles; so whenever no
\* effect is pending the stored value is the whole of articles. The effects
\* that follow a failed fetch do not call setItem and leave the stored value
\* as it was.
C13_CacheWrite ==
    /\ [][(exitPath = "success" /\ Len(articles) > 0) =>
             /\ cacheLog'.writes = 1
             /\ storage = "ok" => cache' = JSONstringify(articles)]_vars
    /\ []((Idle /\ storage = "ok" /\ Len(articles) > 0) =>
             cache = JSONstringify(articles))
    /\ [][exitPath = "failure" => (cacheLog'.writes = 0 /\ cache' = cache)]_vars

\* C13 witness: a page was appended to earlier ones and the save effect has
\* stored all of them.
C13_Witness ==
    /\ lastOp = "success"
    /\ cacheLog.writes = 1
    /\ storage = "ok"
    /\ Len(articles) > MaxPage
    /\ cache = JSONstringify(articles)

\* C14: cache errors are non-fatal. Where every sessionStorage call throws:
\* the stored value never changes and nothing is restored; the initial effect
\* ends as it does for an absent item, with the first fetch issued, articles
\* empty and error null; a step whose setItem throws changes articles,
\* currentIndex and isInitialLoad not at all, and error, loading and
\* isFetchingRef only by the fetch it issues; no exception leaves an effect.
C14_CacheErrorsNonFatal ==
    /\ [][storage = "throws" => (cache' = cache /\ lastOp' # "restore")]_vars
    /\ [][(storage = "throws" /\ ~mounted /\ effectsPending) =>
             /\ issued' /\ Len(pending') = 1
             /\ articles' = <<>> /\ currentIndex' = 0
             /\ error' = Null /\ loading' /\ isInitialLoad']_vars
    /\ [][(storage = "throws" /\ cacheLog'.writes > 0) =>
             /\ UNCHANGED <<articles, currentIndex, isInitialLoad>>
             /\ ~issued' => UNCHANGED <<error, loading, isFetchingRef, pending>>
             /\ issued' => (error' = Null /\ loading' /\ isFetchingRef')]_vars
    /\ [](~cacheLog.uncaught)

\* C14 witness: with a throwing storage, pages were loaded, the cursor has
\* moved, and the save effect has just called setItem.
C14_Witness ==
    /\ storage = "throws"
    /\ cacheLog.writes = 1
    /\ Len(articles) > MaxPage
    /\ currentIndex > 0
    /\ error = Null

\* C15: wheel debounce. The timer a burst of wheel events has armed stays
\* armed until it fires, taking the burst's one navigation step, unless a
\* later wheel event of the burst replaces it: no fetch completion and no
\* keyboard or swipe navigation during the quiet period disarms it.
C15_WheelDebounce ==
    [][timers' # timers => (handleWheel \/ WheelTimeout)]_vars

\* The one active card of the window at cursor 0 shows items[0]
FirstDisplayed(items) ==
    /\ Len(items) > 0
    /\ ActiveCards(items, 0) = {1}
    /\ Cards(items, 0)[1].article = items[1]

\* The parts of C16 that do not concern the displayed article: before the
\* initial effect isInitialLoad and loading are true, and with nothing to
\* restore that effect issues one fetch; a failed fetch leaves isInitialLoad
\* as it was; a successful fetch and a cache restore make it false, and
\* nothing else changes it; once false it stays false.
InitialLoadFlag ==
    /\ [](~mounted => (isInitialLoad /\ loading))
    /\ [][(~mounted /\ effectsPending /\ NothingToRestore) =>
             (issued' /\ Len(pending') = 1 /\ isInitialLoad' /\ loading')]_vars
    /\ [][exitPath' = "failure" => isInitialLoad' = isInitialLoad]_vars
    /\ [][exitPath' = "success" => ~isInitialLoad']_vars
    /\ [][(~mounted /\ effectsPending /\ ~NothingToRestore) => ~isInitialLoad']_vars
    /\ [][isInitialLoad' # isInitialLoad =>
             (exitPath' = "success" \/ lastOp' = "restore")]_vars
    /\ [][~isInitialLoad => ~isInitialLoad']_vars

\* C16 as stated: initial load flag, and after the first successful fetch
\* articles[0] is the displayed article at cursor 0.
C16_Original ==
    /\ InitialLoadFlag
    /\ [][(isInitialLoad /\ exitPath' = "success") =>
             (currentIndex' = 0 /\ FirstDisplayed(articles'))]_vars

\* C16: initial load flag, and after a first successful fetch that returned
\* at least one article articles[0] is the displayed article at cursor 0.
C16_InitialLoadFlag ==
    /\ InitialLoadFlag
    /\ [][(isInitialLoad /\ exitPath' = "success") =>
             /\ currentIndex' = 0
             /\ Len(lastPage') > 0 => FirstDisplayed(articles')
             /\ Len(lastPage') = 0 => articles' = <<>>]_vars

\* C16 witness: with no cached feed the first successful fetch has returned
\* a non-empty page, isInitialLoad has become false and articles[0] is
\* displayed.
C16_Witness ==
    /\ exitPath = "success"
    /\ Len(lastPage) > 0
    /\ articles = lastPage
    /\ ~isInitialLoad
    /\ currentIndex = 0
    /\ cache.kind = "null"
    /\ FirstDisplayed(articles)

\* C17: stale-page tolerance. No navigation step removes a request from
\* flight; a fetch completion, success or failure, leaves currentIndex as it
\* is; and a successful completion appends its page to the tail of articles
\* wherever the cursor is at that moment.
C17_StalePageTolerance ==
    /\ [][Advance => (pending' = pending /\ isFetchingRef' = isFetchingRef)]_vars
    /\ [][exitPath' \in {"success", "failure"} => currentIndex' = currentIndex]_vars
    /\ [][exitPath' = "success" =>
             /\ articles' = articles \o lastPage'
             /\ \E i \in 1..Len(pending) :
                   lastRequest' = pending[i] /\ pending' = RemoveAt(pending, i)]_vars

\* C17 witness: a page has just been appended to the tail, by a fetch that
\* the prefetch effect dispatched at a cursor position the user has since
\* navigated back from.
C17_Witness ==
    /\ exitPath = "success"
    /\ Len(lastPage) > 0
    /\ lastRequest.at >= Len(articles) - Len(lastPage) - PREFETCH_THRESHOLD
    /\ currentIndex < lastRequest.at
    /\ SubSeq(articles, Len(articles) - Len(lastPage) + 1, Len(articles)) = lastPage

\* What C18 says of the events that reach goToNext and goToPrevious, and of
\* the prefetch: the step of a navigation event moves the cursor itself,
\* whether or not a fetch is in flight, and issues no fetch; a fetch that
\* follows a navigation event is issued by the effects of the commit that
\* shows the new cursor.
NavigationOrdering ==
    /\ [][Advance =>
             /\ lastOp' = "next" =>
                   currentIndex' = IF currentIndex < Len(articles) - 1
                                   THEN currentIndex + 1 ELSE currentIndex
             /\ lastOp' = "previous" =>
                   currentIndex' = IF currentIndex > 0
                                   THEN currentIndex - 1 ELSE currentIndex
             /\ ~issued']_vars
    /\ [][(issued' /\ lastOp' \in {"next", "previous"}) =>
             /\ effectsPending
             /\ currentIndex' = currentIndex
             /\ pending'[1].at = currentIndex]_vars

C19_Retry ==
    /\ []((Idle /\ error # Null /\ pending = <<>>) => rendered.error)
    /\ [][Retry =>
             IF pending = <<>>
             THEN /\ issued' /\ Len(pending') = 1
                  /\ error' = Null /\ loading' /\ isFetchingRef'
             ELSE /\ ~issued' /\ pending' = pending]_vars
    /\ [][exitPath' = "success" =>
             (articles' = articles \o lastPage' /\ error' = Null)]_vars
    /\ [][exitPath' = "failure" =>
             (articles' = articles /\ error' # Null /\ rendered'.error)]_vars

\* C19 witness: after a failed initial load, Try Again has issued a fetch,
\* cleared error and set loading.
C19_Witness ==
    /\ lastOp = "retry"
    /\ issued
    /\ Len(pending) = 1
    /\ error = Null
    /\ loading
    /\ articles = <<>>
    /\ isInitialLoad

\* C20: error field invariant. Where error is set no fetch is in flight;
\* the step that issues a fetch leaves error null; only the failure of a
\* fetch sets error or changes its message, and only the issue of a fetch
\* clears it; a fetch that succeeds ends with error null. Hence error is set
\* exactly from a failure until the next fetch is issued, and no fetch has
\* succeeded in between.
C20_ErrorField ==
    /\ [](error # Null => (pending = <<>> /\ ~isFetchingRef /\ ~loading))
    /\ [][issued' => error' = Null]_vars
    /\ [][(error' # Null /\ error' # error) => exitPath' = "failure"]_vars
    /\ [][(error # Null /\ error' = Null) => issued']_vars
    /\ [][exitPath' = "success" => (error = Null /\ error' = Null)]_vars

\* C20 witness: the error of a failed prefetch stands, with articles loaded,
\* no fetch in flight and the cursor too far from the end for the prefetch
\* effect to issue another.
C20_Witness ==
    /\ error = "HTTP error 404"
    /\ Idle
    /\ pending = <<>>
    /\ Len(articles) > PREFETCH_THRESHOLD
    /\ currentIndex = 0
    /\ rendered = View

----------------------------------------------------------------------------
(* Server, like button: properties *)

\* C21: server page-size clamp. Whatever the count parameter of GET
\* /api/random/batch (absent, 0, negative, greater than 10, non-numeric), the
\* number the handler passes to getRandomArticles is at most 10, and it is 5
\* when the parameter is absent.
C21_PageSizeClamp ==
    serverLog.op = "batch" =>
        /\ AtMost(serverLog.requested, Num(MAX_COUNT))
        /\ ~serverLog.param.present => serverLog.requested = Num(DEFAULT_COUNT)

\* A like endpoint's handler sends its response in this step
Responds(r) ==
    /\ tasks'[r] # tasks[r]
    /\ tasks'[r].pc = "done"
    /\ tasks'[r].op \in {"like", "unlike"}

\* C22 as stated: a like endpoint answers 200 with the article, 400 {error}
\* when the id is not numeric, or 500 {error, message}, and nothing else,
\* also when the article is not stored.
C22_Original ==
    [][\A r \in Requests :
         Responds(r) =>
             \/ tasks'[r].status = 200 /\ tasks'[r].body = "article"
             \/ tasks'[r].status = 400 /\ tasks'[r].body = "error" /\ tasks'[r].id = 0
             \/ tasks'[r].status = 500 /\ tasks'[r].body = "error message"]_vars

\* C22: backend error responses. A like endpoint answers 400 {error} exactly
\* when the id is not numeric; otherwise 200 with the article only if the
\* article is stored, 404 {error} exactly when DELETE names an article that
\* is not stored at the time of its final read, 500 {error, message} when
\* POST names an article that is not stored, and no other status.
C22_ErrorResponses ==
    [][\A r \in Requests :
         Responds(r) =>
             LET t == tasks'[r]
                 stored == ArticleStored(db', t.id)
             IN  /\ \/ t.status = 200 /\ t.body = "article"
                    \/ t.status = 400 /\ t.body = "error"
                    \/ t.status = 404 /\ t.body = "error"
                    \/ t.status = 500 /\ t.body = "error message"
                 /\ t.status = 400 <=> t.id = 0
                 /\ t.id # 0 =>
                      /\ t.status = 200 => stored
                      /\ t.status = 404 <=> (t.op = "unlike" /\ ~stored)
                      /\ (t.op = "like" /\ ~stored) => t.status = 500]_vars

\* C22 witness: DELETE for an article that is not stored was answered 404
C22_Witness ==
    \E r \in Requests :
      /\ tasks[r].op = "unlike"
      /\ tasks[r].pc = "done"
      /\ tasks[r].status = 404
      /\ ~ArticleStored(db, tasks[r].id)

\* C23: optimistic like toggle. A click that calls onLikeToggle negates the
\* card's isLiked before the promise settles and remembers the old value;
\* when the promise resolves isLiked keeps the toggled value, when it rejects
\* isLiked returns to the value before the toggle; each of these steps
\* changes nothing but that card's isLiked and isLikeLoading (expanded and
\* every other card are left alone), and a click without onLikeToggle
\* changes nothing.
C23_OptimisticLike ==
    /\ [][\A c \in CardIds :
            (cardLog'.op = "toggle" /\ cardLog'.card = c /\ cardLog'.called) =>
                /\ cards'[c].isLiked = ~cards[c].isLiked
                /\ cards'[c].isLikeLoading /\ cards'[c].awaiting
                /\ cards'[c].was = cards[c].isLiked
                /\ cards'[c].sent = cards'[c].isLiked]_vars
    /\ [][\A c \in CardIds :
            (cardLog'.op = "resolved" /\ cardLog'.card = c) =>
                /\ cards'[c].isLiked = cards[c].isLiked
                /\ cards'[c].isLiked = cards[c].sent
                /\ ~cards'[c].isLikeLoading]_vars
    /\ [][\A c \in CardIds :
            (cardLog'.op = "rejected" /\ cardLog'.card = c) =>
                /\ cards'[c].isLiked = cards[c].was
                /\ cards'[c].isLiked = ~cards[c].isLiked
                /\ ~cards'[c].isLikeLoading]_vars
    /\ [][\A c \in CardIds :
            cardLog'.op \in {"toggle", "resolved", "rejected"} =>
                /\ cards'[c].expanded = cards[c].expanded
                /\ cardLog'.card # c => cards'[c] = cards[c]
                /\ (cardLog'.op = "toggle" /\ ~cardLog'.called) => cards'[c] = cards[c]]_vars
    /\ [](\A c \in CardIds : cards[c].awaiting => cards[c].isLiked = ~cards[c].was)

\* C23 witness: a card that was liked, was toggled to not liked and whose
\* request was rejected is liked again, while another card awaits its own
\* request
C23_Witness ==
    \E c, o \in CardIds :
      /\ c # o
      /\ cardLog.op = "rejected"
      /\ cardLog.card = c
      /\ cards[c].isLiked
      /\ ~cards[c].isLikeLoading
      /\ cards[o].awaiting

----------------------------------------------------------------------------
(* Feed: page size, progress, quiescence, loading *)

\* The count App.test.tsx expects in the URL of the initial load
TESTED_COUNT == 5

\* C24: fixed page size. Every fetch the controller issues (initialize,
\* prefetch, retry) asks for the same page size, and that size is the 5 of
\* /api/random/batch?count=5.
C24_FixedPageSize ==
    /\ \A i, j \in 1..Len(pending) : pending[i].count = pending[j].count
    /\ \A i \in 1..Len(pending) : pending[i].count = TESTED_COUNT

\* C25: progress. The controller never comes to rest (nothing left to run
\* until the user or the network acts) with no article, no fetch in flight
\* and no error.
C25_Progress ==
    ~(/\ Quiescent
      /\ articles = <<>>
      /\ pending = <<>>
      /\ ~isFetchingRef
      /\ error = Null)

\* C26: quiescence without user input. When every fetch succeeds and the
\* user does nothing, the controller issues finitely many fetches and then
\* stays at rest with no fetch in flight, whatever the sizes of the pages.
C26_Quiescence == <>[](Quiescent /\ pending = <<>> /\ ~isFetchingRef)

\* C27: loading mirrors the in-flight guard. Once the initial effect has run,
\* loading is true exactly when isFetchingRef is set, so the prefetch
\* effect's test of !loading agrees with the guard of fetchArticles: a fetch
\* is in flight exactly when both are set.
C27_LoadingMirrorsGuard ==
    /\ [](mounted => /\ loading = isFetchingRef
                     /\ isFetchingRef = (pending # <<>>))
    /\ [][(mounted /\ issued') => (~loading /\ ~isFetchingRef)]_vars
    /\ [][(mounted /\ exitPath' = "dedup") => (loading /\ isFetchingRef)]_vars
    /\ []((Quiescent /\ articles # <<>>
              /\ currentIndex >= Len(articles) - PREFETCH_THRESHOLD) => isFetchingRef)

\* C27 witness: a prefetch is in flight with loading and the guard both set,
\* and the prefetch effect has run again without calling fetchArticles
C27_Witness ==
    /\ Quiescent
    /\ loading
    /\ isFetchingRef
    /\ Len(pending) = 1
    /\ ~pending[1].isInitialLoad
    /\ articles # <<>>
    /\ currentIndex >= Len(articles) - PREFETCH_THRESHOLD

----------------------------------------------------------------------------
(* Server: the tables under concurrent requests *)

\* C28: saveArticle under concurrency. Every saveArticle call completes
\* without error, also when two requests save the same id with their
\* existence checks interleaved before their inserts (so every batch request
\* is answered 200), and the table never holds more than one row per id.
C28_SaveArticle ==
    /\ \A r \in Requests :
         (tasks[r].op = "batch" /\ tasks[r].pc = "done") => tasks[r].status = 200
    /\ \A id \in Ids : Len(db.articles[id]) <= 1

\* POST .../like for a numeric id is answered in this step
LikeAnswered(r) ==
    /\ tasks[r].op = "like"
    /\ tasks[r].pc # "done"
    /\ tasks'[r].pc = "done"

\* C29: likes reference stored articles. In every state every id with a row
\* in likes has a row in articles and has one row in likes only; likeArticle
\* for an id that is not stored fails (the endpoint answers 500) and adds no
\* like.
C29_LikesReferenceArticles ==
    /\ [](\A id \in Ids : /\ db.likes[id] <= 1
                          /\ LikeStored(db, id) => ArticleStored(db, id))
    /\ [][\A r \in Requests :
            (LikeAnswered(r) /\ ~ArticleStored(db, tasks[r].id)) =>
                /\ tasks'[r].status = 500
                /\ db' = db]_vars

\* C29 witness: a like of an article that is not stored was refused, while
\* another article is stored and liked
C29_Witness ==
    \E r \in Requests : \E id \in Ids :
      /\ tasks[r].op = "like"
      /\ tasks[r].pc = "done"
      /\ tasks[r].status = 500
      /\ tasks[r].id # id
      /\ ~ArticleStored(db, tasks[r].id)
      /\ ~LikeStored(db, tasks[r].id)
      /\ ArticleStored(db, id)
      /\ LikeStored(db, id)

\* C30: like / unlike algebra. From every state of the tables and for every
\* stored article: likeArticle twice leaves the tables as likeArticle once
\* does and both succeed with the article liked; unlikeArticle twice leaves
\* them as unlikeArticle once does; likeArticle then unlikeArticle leaves the
\* article not liked, as unlikeArticle alone does; and getArticleById
\* reports isLiked = true exactly when the id has a row in likes.
C30_LikeAlgebra ==
    \A id \in Ids :
      ArticleStored(db, id) =>
        LET once == LikeAlone(db, id)
            twice == LikeAlone(once.db, id)
            off == UnlikeAlone(db, id)
            offTwice == UnlikeAlone(off.db, id)
            onOff == UnlikeAlone(once.db, id)
        IN  /\ once.task.status = 200 /\ once.task.liked
            /\ twice.task.status = 200 /\ twice.task.liked
            /\ twice.db = once.db
            /\ once.db.likes[id] = 1
            /\ off.task.status = 200 /\ ~off.task.liked
            /\ offTwice.task.status = 200 /\ ~offTwice.task.liked
            /\ offTwice.db = off.db
            /\ onOff.db = off.db
            /\ ~LikeStored(onOff.db, id)
            /\ ~getArticleById(onOff.db, id).isLiked
            /\ getArticleById(db, id).isLiked <=> LikeStored(db, id)
            /\ getArticleById(once.db, id).isLiked

\* C30 witness: an article liked once was liked again, both requests were
\* answered 200 with the article liked, and likes holds it once
C30_Witness ==
    \E id \in Ids :
      /\ db.likes[id] = 1
      /\ \A r \in Requests :
           /\ tasks[r].op = "like"
           /\ tasks[r].pc = "done"
           /\ tasks[r].id = id
           /\ tasks[r].status = 200
           /\ tasks[r].liked

----------------------------------------------------------------------------
(* Server: wikipediaService properties *)

\* C31: getRandomArticles with quality filters always terminates and returns
\* exactly count articles, whatever the Wikipedia API does, also when every
\* getRandomArticle of a round fails.
C31_BatchTerminates ==
    [](svc.fn = "quality" =>
          <>(svc.fn = "quality" /\ svc.pc = "done" /\ Len(svc.articles) = svc.count))

C34_ImagesOnly ==
    /\ [](svc.fn = "images" =>
             /\ svc.attempts <= svc.count * ATTEMPTS_PER_ARTICLE
             /\ Len(svc.articles) <= svc.count
             /\ \A i \in 1..Len(svc.articles) : svc.articles[i] # "null"
             /\ ~svc.threw
             /\ (svc.pc = "done" /\ Len(svc.articles) < svc.count) =>
                    svc.attempts = svc.count * ATTEMPTS_PER_ARTICLE)
    /\ [][(svc.fn = "images" /\ svcLog'.outcome = "threw") =>
             /\ svc'.fn = "images"
             /\ svc'.articles = svc.articles
             /\ \/ svc'.pc = "random" /\ svc'.attempts = svc.attempts + 1
                \/ svc'.pc = "done" /\ svc'.attempts = svc.attempts]_vars
    /\ [][(svc.fn = "images" /\ svcLog'.outcome = "returned") =>
             svc'.articles = IF hasThumbnail(svcLog'.page)
                             THEN Append(svc.articles, svcLog'.page.thumbnail)
                             ELSE svc.articles]_vars

\* C34 witness: a call for MaxCount articles has returned none after
\* 3 * MaxCount attempts, the last of which threw
C34_Witness ==
    /\ svc.fn = "images"
    /\ svc.pc = "done"
    /\ svc.count = MaxCount
    /\ svc.articles = <<>>
    /\ svc.attempts = MaxCount * ATTEMPTS_PER_ARTICLE
    /\ svcLog.outcome = "threw"

----------------------------------------------------------------------------
(* ArticleCard: the in-flight guard of the like button *)

\* C33: like toggle in-flight guard. While a toggle of a card is pending
\* (isLikeLoading), pressing its like button again calls no backend and
\* changes nothing; a backend call is made only for a card with none
\* outstanding; isLikeLoading is set exactly while the card's call is
\* outstanding and is false again once it has resolved or rejected.
C33_LikeInFlightGuard ==
    /\ [][\A c \in CardIds :
            (cardLog'.op = "toggle" /\ cardLog'.card = c /\ cards[c].isLikeLoading) =>
                /\ ~cardLog'.called
                /\ cards' = cards]_vars
    /\ [][\A c \in CardIds :
            (cardLog'.op = "toggle" /\ cardLog'.card = c /\ cardLog'.called) =>
                /\ ~cards[c].awaiting
                /\ ~cards[c].isLikeLoading
                /\ cards'[c].awaiting]_vars
    /\ [](\A c \in CardIds : cards[c].isLikeLoading <=> cards[c].awaiting)
    /\ [][\A c \in CardIds :
            (cardLog'.op \in {"resolved", "rejected"} /\ cardLog'.card = c) =>
                /\ cards[c].awaiting
                /\ ~cards'[c].awaiting
                /\ ~cards'[c].isLikeLoading]_vars

\* C33 witness: the like button of a card whose toggle is pending was
\* pressed again, and nothing was called
C33_Witness ==
    /\ onLikeToggle
    /\ cardLog.op = "toggle"
    /\ ~cardLog.called
    /\ cards[cardLog.card].isLikeLoading
    /\ cards[cardLog.card].awaiting
    /\ cards[cardLog.card].isLiked # cards[cardLog.card].was

----------------------------------------------------------------------------
(* Feed: the direction of a wheel burst *)

\* What goToNext, goToPrevious or neither makes of the cursor, by the sign
\* of deltaY
CursorAfterWheel(deltaY) ==
    IF deltaY > 0
    THEN IF CanGoNext(currentIndex, Len(articles)) THEN currentIndex + 1 ELSE currentIndex
    ELSE IF deltaY < 0
    THEN IF CanGoPrevious(currentIndex) THEN currentIndex - 1 ELSE currentIndex
    ELSE currentIndex

\* C35: debounced wheel direction. At most one wheel timer is pending, the
\* one scrollTimeoutRef names; a wheel event moves no cursor and leaves
\* exactly one timer pending, its own, whatever was pending before; the
\* timer that fires is therefore that of the last event, and the step taken
\* follows the sign of its deltaY alone: Next for deltaY > 0, Previous for
\* deltaY < 0, none for deltaY = 0.
C35_WheelDirection ==
    /\ [](Cardinality(timers) <= 1 /\ \A t \in timers : t.id = scrollTimeoutRef)
    /\ [][handleWheel =>
             /\ currentIndex' = currentIndex
             /\ articles' = articles
             /\ Cardinality(timers') = 1
             /\ \A t \in timers' :
                  /\ t.id = scrollTimeoutRef'
                  /\ t.overrode <=> (\E o \in timers : o.deltaY # t.deltaY)]_vars
    /\ [][WheelTimeout =>
             \E t \in timers :
               /\ timers = {t}
               /\ timers' = {}
               /\ scrollTimeoutRef' = 0
               /\ currentIndex' = CursorAfterWheel(t.deltaY)
               /\ lastOp' = (IF t.deltaY > 0 THEN "next"
                             ELSE IF t.deltaY < 0 THEN "previous" ELSE "none")]_vars

\* C35 witness: with the cursor inside the feed, a wheel event upwards has
\* cancelled the timer of an event of another direction; its timer is the
\* only one pending and the cursor has not moved since the last step
C35_Witness ==
    /\ lastOp = "wheel"
    /\ Quiescent
    /\ currentIndex > 0
    /\ currentIndex < Len(articles) - 1
    /\ \E t \in timers :
         /\ timers = {t}
         /\ t.deltaY < 0
         /\ t.overrode
         /\ scrollTimeoutRef = t.id

====
